---- MODULE Spec2Model ----
(***************************************************************************)
(* Model of the Bells Fork inventory toolchain:                            *)
(*   - generate-vdp-pages.ps1  (page generator and sitemap rewriter)       *)
(*   - inventory-loader.js     (client inventory loader)                   *)
(*   - assets/js/utils.js      (sha1Hex)                                   *)
(* Strings are TLA+ strings over printable ASCII; a JSON field value is a  *)
(* tagged record (null, string or number).                                 *)
(***************************************************************************)
EXTENDS Integers, Sequences, FiniteSets, TLC

VARIABLES
  \* --- one vehicle through both implementations of the URL scheme ---
  rec,        \* the Vehicle record under derivation
  conf,       \* the generator's parameters (SiteUrl, City, State, Zip, switch)
  gen,        \* what the generator's loop body derived from rec
  cli,        \* what the client loader derived from rec
  \* --- the page generator (generate-vdp-pages.ps1) ---
  inventory,  \* the inventory document on disk
  pages,      \* the files under <OutDir>/vdp: a set of [path, html]
  sitemap,    \* <OutDir>/sitemap.xml
  gpc,        \* where the script is: idle (not running) or loop
  gi,         \* index of the vehicle the loop processes next
  vdpUrls,    \* $vdpUrls
  count,      \* $count
  today,      \* the day Get-Date reports
  runs,       \* script runs started so far
  hist,       \* one record per run: input, files written, sitemap, exit
  \* --- the client loader (inventory-loader.js) ---
  served,     \* what fetch(jsonPath) will answer
  vehicles,   \* this.vehicles
  limit,      \* this.limit: NaN or an integer
  grid,       \* content of #inventoryGrid and the call that rendered it
  pending,    \* loadInventory calls awaiting their fetch
  calls,      \* loadInventory calls made so far
  fetches,    \* fetch(jsonPath) requests sent so far
  returned,   \* what the loadInventory call settled last resolved to
  \* --- the admin tool (vehicle-manager.js, in unused-css-report.js) ---
  storage,    \* localStorage item 'bellsfork_inventory'
  download,   \* the inventory.json file last offered as a download
  tableRows,  \* rows (delete buttons) of the inventory table
  clock,      \* what new Date() reports
  lastOp      \* the last saveVehicle / deleteVehicle call and what it found

dvars == <<rec, conf, gen, cli>>
gvars == <<inventory, pages, sitemap, gpc, gi, vdpUrls, count, today, runs, hist>>
cvars == <<served, vehicles, limit, grid, pending, calls, fetches, returned>>
avars == <<storage, download, tableRows, clock, lastOp>>
vars == <<dvars, gvars, cvars, avars>>

(***************************************************************************)
(* JSON field values and the two runtimes' truthiness / ToString rules.    *)
(***************************************************************************)
Null == [k |-> "null", s |-> "", n |-> 0]
S(str) == [k |-> "str", s |-> str, n |-> 0]
N(num) == [k |-> "num", s |-> "", n |-> num]

\* PowerShell "-not $x" / JavaScript "!x" are false exactly for a non-empty
\* string and a non-zero number (null, "", 0 are falsy in both runtimes).
Truthy(val) == \/ val.k = "str" /\ val.s # ""
               \/ val.k = "num" /\ val.n # 0

RECURSIVE NatToString(_)
NatToString(n) ==
  IF n < 10 THEN SubSeq("0123456789", n + 1, n + 1)
  ELSE NatToString(n \div 10) \o SubSeq("0123456789", (n % 10) + 1, (n % 10) + 1)

\* $x.ToString() / String(x); a null joins as the empty string.
AsString(val) == IF val.k = "str" THEN val.s
                 ELSE IF val.k = "num" THEN NatToString(val.n)
                 ELSE ""

(***************************************************************************)
(* Characters.                                                             *)
(***************************************************************************)
CharAt(str, i) == SubSeq(str, i, i)
CharsOf(str) == {CharAt(str, i) : i \in 1..Len(str)}
AlnumChars ==
  CharsOf("abcdefghijklmnopqrstuvwxyzABCDEFGHIJKLMNOPQRSTUVWXYZ0123456789")
IsAlnum(c) == c \in AlnumChars
IsSpace(c) == c = " "

\* Printable ASCII without the backquote (code 96): codes 32..95 and 97..126.
AsciiLo ==
  " !\"#$%&'()*+,-./0123456789:;<=>?@ABCDEFGHIJKLMNOPQRSTUVWXYZ[\\]^_"
AsciiHi == "abcdefghijklmnopqrstuvwxyz{|}~"
IndexIn(tab, c) == CHOOSE j \in 1..Len(tab) : CharAt(tab, j) = c
\* msg.charCodeAt(i) after UTF-8 encoding (one byte per ASCII character)
charCodeAt(str, i) ==
  LET c == CharAt(str, i)
  IN IF c \in CharsOf(AsciiHi) THEN 96 + IndexIn(AsciiHi, c)
     ELSE 31 + IndexIn(AsciiLo, c)

(***************************************************************************)
(* sha1Hex of utils.js.  A 32-bit word is a pair <<high 16 bits, low 16    *)
(* bits>>, so that no intermediate value leaves the 32-bit range.          *)
(***************************************************************************)
W16 == 65536

RECURSIVE And16(_, _)
And16(a, b) ==
  IF a = 0 \/ b = 0 THEN 0
  ELSE (a % 2) * (b % 2) + 2 * And16(a \div 2, b \div 2)
Xor16(a, b) == a + b - 2 * And16(a, b)
Or16(a, b) == a + b - And16(a, b)
Not16(a) == (W16 - 1) - a

And32(u, w) == <<And16(u[1], w[1]), And16(u[2], w[2])>>
Xor32(u, w) == <<Xor16(u[1], w[1]), Xor16(u[2], w[2])>>
Or32(u, w) == <<Or16(u[1], w[1]), Or16(u[2], w[2])>>
Not32(u) == <<Not16(u[1]), Not16(u[2])>>
\* (x + y) | 0
Add32(u, w) ==
  LET lo == u[2] + w[2]
      hi == u[1] + w[1] + (lo \div W16)
  IN <<hi % W16, lo % W16>>

RECURSIVE Pow2(_)
Pow2(k) == IF k = 0 THEN 1 ELSE 2 * Pow2(k - 1)

\* rotl(n, s) == (n << s) | (n >>> (32 - s)), 0 < s < 32
rotl(u, s) ==
  LET y == IF s >= 16 THEN <<u[2], u[1]>> ELSE u
      r == s % 16
      p == Pow2(r)
      q == Pow2(16 - r)
  IN IF r = 0 THEN y
     ELSE << ((y[1] * p) % W16) + (y[2] \div q),
             ((y[2] * p) % W16) + (y[1] \div q) >>

\* Byte i (0-based) of the padded message: the message's own bytes, then the
\* 0x80 marker or-ed in at position msg.length, zero elsewhere.
PadByte(msg, i) ==
  IF i < Len(msg) THEN charCodeAt(msg, i + 1)
  ELSE IF i = Len(msg) THEN 128
  ELSE 0

\* Index of the word that receives the bit length ml.
LenWordIndex(msg) == ((((Len(msg) * 8) + 64) \div 512) * 16) + 15

\* words[k] after lines 14-19.
MsgWord(msg, k) ==
  IF k = LenWordIndex(msg)
  THEN <<(Len(msg) * 8) \div W16, (Len(msg) * 8) % W16>>
  ELSE << PadByte(msg, 4 * k) * 256 + PadByte(msg, 4 * k + 1),
          PadByte(msg, 4 * k + 2) * 256 + PadByte(msg, 4 * k + 3) >>

\* Loops are unrolled by halving the index range [lo, hi]: the left half is
\* computed first, then the right half continues from its result.
RECURSIVE Schedule(_, _, _)
\* w[lo..hi] of line 26; w is 1-based here: w[t + 1] is the code's w[t].
Schedule(w, lo, hi) ==
  IF lo = hi
  THEN Append(w, rotl(Xor32(Xor32(w[lo - 2], w[lo - 7]),
                             Xor32(w[lo - 13], w[lo - 15])), 1))
  ELSE LET mid == (lo + hi) \div 2
           left == Schedule(w, lo, mid)
       IN IF Len(left) = mid + 1 THEN Schedule(left, mid + 1, hi) ELSE left

\* w[0..15] of line 25, then w[16..79]
BlockWords(msg, blk) ==
  Schedule([t \in 1..16 |-> MsgWord(msg, 16 * blk + (t - 1))], 16, 79)

K1 == <<23170, 31129>>   \* 0x5A827999
K2 == <<28377, 60321>>   \* 0x6ED9EBA1
K3 == <<36635, 48348>>   \* 0x8F1BBCDC
K4 == <<51810, 49622>>   \* 0xCA62C1D6

RoundF(t, b, c, d) ==
  IF t < 20 THEN Or32(And32(b, c), And32(Not32(b), d))
  ELSE IF t < 40 THEN Xor32(Xor32(b, c), d)
  ELSE IF t < 60 THEN Or32(Or32(And32(b, c), And32(b, d)), And32(c, d))
  ELSE Xor32(Xor32(b, c), d)

RoundK(t) == IF t < 20 THEN K1
             ELSE IF t < 40 THEN K2
             ELSE IF t < 60 THEN K3
             ELSE K4

\* One pass of the loop body, lines 31-38.
Round(t, st, w) ==
  LET temp == Add32(Add32(Add32(Add32(rotl(st[1], 5),
                                        RoundF(t, st[2], st[3], st[4])),
                                  st[5]),
                            RoundK(t)),
                    w[t + 1])
  IN <<temp, st[1], rotl(st[2], 30), st[3], st[4]>>

RECURSIVE Rounds(_, _, _, _)
\* st = <<a, b, c, d, e>>; for (t = lo; t <= hi; t++)
Rounds(st, w, lo, hi) ==
  IF lo = hi THEN Round(lo, st, w)
  ELSE LET mid == (lo + hi) \div 2
           left == Rounds(st, w, lo, mid)
       IN IF Len(left) = 5 THEN Rounds(left, w, mid + 1, hi) ELSE left

H0 == << <<26437, 8961>>, <<61389, 43913>>, <<39098, 56574>>,
         <<4146, 21622>>, <<50130, 57840>> >>

RECURSIVE Blocks(_, _, _)
Blocks(msg, blk, h) ==
  IF blk * 16 > LenWordIndex(msg) THEN h
  ELSE LET r == Rounds(h, BlockWords(msg, blk), 0, 79)
       IN Blocks(msg, blk + 1,
                 <<Add32(h[1], r[1]), Add32(h[2], r[2]), Add32(h[3], r[3]),
                   Add32(h[4], r[4]), Add32(h[5], r[5])>>)

HexDigit(d) == CharAt("0123456789abcdef", d + 1)
Hex16(n) == HexDigit(n \div 4096) \o HexDigit((n \div 256) % 16)
            \o HexDigit((n \div 16) % 16) \o HexDigit(n % 16)
toHex(u) == Hex16(u[1]) \o Hex16(u[2])

sha1Hex(msg) ==
  LET h == Blocks(msg, 0, H0)
  IN toHex(h[1]) \o toHex(h[2]) \o toHex(h[3]) \o toHex(h[4]) \o toHex(h[5])

(***************************************************************************)
(* String helpers (regex replace, Trim, -join / Array.join).               *)
(***************************************************************************)
RECURSIVE ConcatAll(_, _, _)
\* parts[lo] \o ... \o parts[hi]
ConcatAll(parts, lo, hi) ==
  IF lo > hi THEN ""
  ELSE IF lo = hi THEN parts[lo]
  ELSE LET mid == (lo + hi) \div 2
       IN ConcatAll(parts, lo, mid) \o ConcatAll(parts, mid + 1, hi)

\* -join sep / Array.prototype.join(sep) of a sequence of strings
JoinWith(strs, sep) ==
  ConcatAll([i \in 1..Len(strs) |-> IF i = 1 THEN strs[i] ELSE sep \o strs[i]],
            1, Len(strs))

RECURSIVE SelectTruthy(_)
\* .filter(Boolean)
SelectTruthy(vals) ==
  IF vals = <<>> THEN <<>>
  ELSE IF Truthy(Head(vals)) THEN <<Head(vals)>> \o SelectTruthy(Tail(vals))
  ELSE SelectTruthy(Tail(vals))

RECURSIVE SelectNonEmpty(_)
SelectNonEmpty(strs) ==
  IF strs = <<>> THEN <<>>
  ELSE IF Head(strs) # "" THEN <<Head(strs)>> \o SelectNonEmpty(Tail(strs))
  ELSE SelectNonEmpty(Tail(strs))

\* -replace '[^a-zA-Z0-9]','' and .replace(/[^a-z0-9]/gi, '')
StripNonAlnum(str) ==
  ConcatAll([i \in 1..Len(str) |->
               IF IsAlnum(CharAt(str, i)) THEN CharAt(str, i) ELSE ""],
            1, Len(str))

\* -replace '[^a-zA-Z0-9]+','-' and .replace(/[^a-z0-9]+/gi, '-'): the first
\* character of every run of non-alphanumerics becomes one hyphen.
CollapseNonAlnum(str) ==
  ConcatAll([i \in 1..Len(str) |->
               IF IsAlnum(CharAt(str, i)) THEN CharAt(str, i)
               ELSE IF i = 1 \/ IsAlnum(CharAt(str, i - 1)) THEN "-"
               ELSE ""],
            1, Len(str))

\* Strip the characters satisfying Drop from both ends.
TrimWhere(str, Drop(_)) ==
  LET keep == {i \in 1..Len(str) : ~Drop(CharAt(str, i))}
  IN IF keep = {} THEN ""
     ELSE SubSeq(str, CHOOSE i \in keep : \A j \in keep : i <= j,
                      CHOOSE i \in keep : \A j \in keep : i >= j)
\* Strip the characters satisfying Drop from the end.
TrimEndWhere(str, Drop(_)) ==
  LET keep == {i \in 1..Len(str) : ~Drop(CharAt(str, i))}
  IN IF keep = {} THEN ""
     ELSE SubSeq(str, 1, CHOOSE i \in keep : \A j \in keep : i >= j)

IsHyphen(c) == c = "-"
IsSlash(c) == c = "/"
\* .Trim() / .trim()
Trim(str) == TrimWhere(str, IsSpace)
\* .Trim('-') / .replace(/^-+|-+$/g, '')
TrimHyphens(str) == TrimWhere(str, IsHyphen)

\* s contains sub as a substring
Contains(str, sub) ==
  \E i \in 1..(Len(str) - Len(sub) + 1) : SubSeq(str, i, i + Len(sub) - 1) = sub

(***************************************************************************)
(* Vehicle records and configuration.                                      *)
(***************************************************************************)
FieldNames == {"vehicleId", "stockNumber", "id", "vin", "year", "make",
               "model", "trim", "price", "mileage", "dateAdded", "status",
               "type", "description"}
\* A record none of whose fields is present.
Blank == [f \in FieldNames |-> Null]

\* The Param() defaults of the generator.
DefaultConf == [SiteUrl |-> "https://bellsforkautoandtruck.com",
                City |-> "Greenville", State |-> "NC", Zip |-> "27858",
                NoUpdateSitemap |-> FALSE]

(***************************************************************************)
(* Bounded input universe.                                                 *)
(***************************************************************************)
ExampleVin == "1FTEW1EP0LKE12345"
\* The end-to-end example of the specification, section 8.
Example ==
  [Blank EXCEPT !.year = N(2020), !.make = S("Ford"), !.model = S("F-150"),
                !.trim = S("XLT"), !.price = N(28500), !.mileage = N(45000),
                !.vin = S(ExampleVin), !.stockNumber = S("A1234")]

\* Identity fields varied, descriptive fields of the example.
IdentityFamily ==
  {[Example EXCEPT !.vehicleId = a, !.stockNumber = b, !.id = c, !.vin = d] :
     a \in {Null, S("V-100"), S(" ")},
     b \in {Null, S("A1234"), S(ExampleVin)},
     c \in {Null, N(7)},
     d \in {Null, S(ExampleVin)}}

\* No identity field; descriptive fields present or absent.
DescriptiveFamily ==
  {[Blank EXCEPT !.vin = d, !.year = y, !.make = mk, !.model = mo,
                 !.mileage = mi] :
     d \in {Null, S(ExampleVin)},
     y \in {Null, N(2020)},
     mk \in {Null, S("Ford")},
     mo \in {Null, S("F-150")},
     mi \in {Null, N(45000)}}

\* Price and mileage values of every kind the generator distinguishes.
NumericFamily ==
  {[Example EXCEPT !.price = pr, !.mileage = mi] :
     pr \in {Null, S(""), N(0), S("0"), N(999), N(28500), S("28500"),
             N(1234567), S("not-a-number")},
     mi \in {Null, N(0), N(45000), S("45000"), S("unknown")}}

\* Descriptive fields with punctuation, runs of blanks, and nothing but
\* punctuation or blanks; identity fields of the example.
SlugFamily ==
  {[Example EXCEPT !.year = y, !.model = mo, !.trim = tr] :
     y \in {Null, N(2020)},
     mo \in {S("F-150"), S("(Super  Duty)")},
     tr \in {Null, S(""), S(" "), S("!!"), S(" Lariat / 4x4 ")}}

\* Prices at and next to the boundaries of the price filter.
PriceFamily ==
  {[Example EXCEPT !.price = N(pr)] :
     pr \in {9999, 10000, 19999, 20000, 29999, 30000}}

Vehicles ==
  IdentityFamily \cup DescriptiveFamily \cup NumericFamily \cup SlugFamily
    \cup PriceFamily

Confs ==
  {DefaultConf,
   [DefaultConf EXCEPT !.SiteUrl = "https://bellsforkautoandtruck.com/"],
   [DefaultConf EXCEPT !.City = "Raleigh", !.Zip = "27601"],
   [DefaultConf EXCEPT !.City = "New Bern", !.Zip = "28560"]}

(***************************************************************************)
(* Identifier derivation: Slug-Id (generator) and vehicleId (client).      *)
(***************************************************************************)
\* The seven descriptive fields of the fallback seed, in order.
SeedFields(v) ==
  <<v.year, v.make, v.model, v.trim, v.price, v.mileage, v.dateAdded>>

\* Lines 24-28: $seed = $v.vin, else the -join of all seven fields (a null
\* joins as an empty string), else "NA".
SlugIdSeed(v) ==
  IF Truthy(v.vin) THEN AsString(v.vin)
  ELSE LET joined == JoinWith([i \in 1..7 |-> AsString(SeedFields(v)[i])], "|")
       IN IF joined # "" THEN joined ELSE "NA"

\* Lines 18-22
SlugIdRaw(v) ==
  IF Truthy(v.vehicleId) THEN v.vehicleId
  ELSE IF Truthy(v.stockNumber) THEN v.stockNumber
  ELSE v.id

\* Line 32 of the loader: v.vin || [...].filter(Boolean).join('|') || 'NA'
vehicleIdSeed(v) ==
  IF Truthy(v.vin) THEN AsString(v.vin)
  ELSE LET kept == SelectTruthy(SeedFields(v))
           joined == JoinWith([i \in 1..Len(kept) |-> AsString(kept[i])], "|")
       IN IF joined # "" THEN joined ELSE "NA"

\* The digests of the seeds of the input universe, computed once.
Sha1Table ==
  {<<seed, sha1Hex(seed)>> :
     seed \in {SlugIdSeed(v) : v \in Vehicles} \cup
              {vehicleIdSeed(v) : v \in Vehicles} \cup {"NA"}}
Sha1(seed) ==
  IF \E e \in Sha1Table : e[1] = seed
  THEN (CHOOSE e \in Sha1Table : e[1] = seed)[2]
  ELSE sha1Hex(seed)

\* Line 32 of the generator, lines 33-34 of the loader: "v" + 10 hex digits
HashId(seed) == "v" \o SubSeq(Sha1(seed), 1, 10)

Slug_Id(v) ==
  LET raw == SlugIdRaw(v)
  IN StripNonAlnum(IF Truthy(raw) THEN AsString(raw)
                   ELSE HashId(SlugIdSeed(v)))

vehicleId(v) ==
  LET raw == SlugIdRaw(v)     \* v.vehicleId || v.stockNumber || v.id
  IN IF Truthy(raw) THEN StripNonAlnum(AsString(raw))
     ELSE HashId(vehicleIdSeed(v))

(***************************************************************************)
(* Slug construction: Slug-Part / Slug-Tail (generator), buildVDPUrl.      *)
(***************************************************************************)
\* Returns "" where the code returns $null (the caller drops both).
\* Slug-Part deleting, instead of collapsing to a hyphen, the characters
\* outside a-z0-9
Slug_Part_Deleting(p) ==
  IF p.k = "null" THEN ""
  ELSE LET s == Trim(AsString(p))
       IN IF s = "" THEN "" ELSE TrimHyphens(StripNonAlnum(s))

\* Slug-Part without the final Trim('-')
Slug_Part_Untrimmed(p) ==
  IF p.k = "null" THEN ""
  ELSE LET s == Trim(AsString(p))
       IN IF s = "" THEN "" ELSE CollapseNonAlnum(s)
\* Lines 38-45
Slug_Part(p) ==
  IF p.k = "null" THEN ""
  ELSE LET s == Trim(AsString(p))
       IN IF s = "" THEN "" ELSE TrimHyphens(CollapseNonAlnum(s))

\* Slug-Tail with the stock number among its parts
Slug_Tail_WithStock(v, c) ==
  LET parts == <<S("Used"), v.year, v.make, v.model, v.trim, v.stockNumber,
                 S("for-sale-in-" \o c.City \o "-" \o c.State \o "-" \o c.Zip)>>
      clean == SelectNonEmpty([i \in 1..7 |-> Slug_Part(parts[i])])
  IN JoinWith(clean, "-")
\* Slug-Tail joining every part, the empty ones included
Slug_Tail_KeepEmpty(v, c) ==
  LET parts == <<S("Used"), v.year, v.make, v.model, v.trim,
                 S("for-sale-in-" \o c.City \o "-" \o c.State \o "-" \o c.Zip)>>
  IN JoinWith([i \in 1..6 |-> Slug_Part(parts[i])], "-")
\* Lines 47-55
Slug_Tail(v, c) ==
  LET parts == <<S("Used"), v.year, v.make, v.model, v.trim,
                 S("for-sale-in-" \o c.City \o "-" \o c.State \o "-" \o c.Zip)>>
      clean == SelectNonEmpty([i \in 1..6 |-> Slug_Part(parts[i])])
  IN JoinWith(clean, "-")

buildVDPUrl(v) ==
  LET id == vehicleId(v)
      parts == SelectTruthy(<<S("Used"), v.year, v.make, v.model, v.trim,
                              S("for-sale-in-Greenville-NC-27858")>>)
      mapped == [i \in 1..Len(parts) |->
                   TrimHyphens(CollapseNonAlnum(Trim(AsString(parts[i]))))]
      slug == JoinWith(SelectNonEmpty(mapped), "-")
  IN "/vdp/" \o id \o "/" \o slug \o "/"

(***************************************************************************)
(* The generator's loop body, lines 114-143.                               *)
(***************************************************************************)
RelDir(v, c) == "vdp/" \o Slug_Id(v) \o "/" \o Slug_Tail(v, c)
PageUrl(v, c) == TrimEndWhere(c.SiteUrl, IsSlash) \o "/" \o RelDir(v, c) \o "/"
\* Join-Path of "vdp", the identifier, the slug and "index.html", relative to
\* the output directory
OutPath(v, c) == RelDir(v, c) \o "/index.html"

DigitChars == CharsOf("0123456789")
IsDigits(str) == str # "" /\ \A i \in 1..Len(str) : CharAt(str, i) \in DigitChars
RECURSIVE ParseNat(_)
ParseNat(str) ==
  IF str = "" THEN 0
  ELSE 10 * ParseNat(SubSeq(str, 1, Len(str) - 1))
       + (IndexIn("0123456789", CharAt(str, Len(str))) - 1)

\* [int]$x: a number converts to itself, a string of decimal digits to its
\* value, and any other string of the input universe makes the cast throw.
CastInt(val) ==
  IF val.k = "num" THEN [ok |-> TRUE, val |-> val.n]
  ELSE IF val.k = "str" /\ IsDigits(val.s)
  THEN [ok |-> TRUE, val |-> ParseNat(val.s)]
  ELSE [ok |-> FALSE, val |-> 0]

Pad3(n) == IF n < 10 THEN "00" \o NatToString(n)
           ELSE IF n < 100 THEN "0" \o NatToString(n)
           ELSE NatToString(n)
RECURSIVE FormatN0(_)
\* .ToString("N0"): groups of three digits separated by commas
FormatN0(n) ==
  IF n < 1000 THEN NatToString(n)
  ELSE FormatN0(n \div 1000) \o "," \o Pad3(n % 1000)

\* A price string without the cast and its fallback
PriceStr_Uncast(v) == "$" \o AsString(v.price)
\* Lines 135-138
PriceStr(v) ==
  IF Truthy(v.price) /\ CastInt(v.price).ok
  THEN "$" \o FormatN0(CastInt(v.price).val)
  ELSE "Call for Price"

\* Lines 140-143
MilesStr(v) ==
  IF Truthy(v.mileage) /\ CastInt(v.mileage).ok
  THEN FormatN0(CastInt(v.mileage).val) \o " miles"
  ELSE "Mileage N/A"

(***************************************************************************)
(* The price range of a card, getPriceRange (loader).                      *)
(***************************************************************************)
\* Number(val) for the comparisons of getPriceRange; NaN compares false
JsNumber(val) ==
  IF val.k = "num" THEN [nan |-> FALSE, n |-> val.n]
  ELSE IF val.k = "str" /\ val.s = "" THEN [nan |-> FALSE, n |-> 0]
  ELSE IF val.k = "str" /\ IsDigits(val.s) THEN [nan |-> FALSE, n |-> ParseNat(val.s)]
  ELSE [nan |-> TRUE, n |-> 0]
LessThan(val, bound) == ~JsNumber(val).nan /\ JsNumber(val).n < bound

\* Lines 149-154
getPriceRange(price) ==
  IF LessThan(price, 10000) THEN "under10"
  ELSE IF LessThan(price, 20000) THEN "10to20"
  ELSE IF LessThan(price, 30000) THEN "20to30"
  ELSE "over30"

(***************************************************************************)
(* Initial values of the components a specification leaves alone.          *)
(***************************************************************************)
NoGen == [done |-> FALSE, id |-> "", tail |-> "", relDir |-> "",
          pageUrl |-> "", priceStr |-> "", milesStr |-> ""]
NoCli == [done |-> FALSE, id |-> "", url |-> "", priceRange |-> ""]
\* A property that is not there (JavaScript undefined)
Undefined == [k |-> "undef", s |-> "", n |-> 0]
\* A text is modelled by its kind (absent: getItem returned null; garbage:
\* not JSON; json), the indent it was written with and the document it
\* denotes; NoDoc is the object without properties.
NoDoc == [haslist |-> FALSE, vehicles |-> <<>>, lastUpdated |-> Undefined]
NoItem == [kind |-> "absent", indent |-> 0, doc |-> NoDoc]
NoVehicle == [vin |-> Null, year |-> Null, status |-> Null, dateAdded |-> Null]
NoOp == [op |-> "none", idx |-> 0, before |-> NoItem, vehicle |-> NoVehicle,
         found |-> NoItem]
AdminIdle ==
  /\ storage = NoItem /\ download = NoItem
  /\ tableRows = 0 /\ clock = 0 /\ lastOp = NoOp
DeriveIdle == rec = Blank /\ conf = DefaultConf /\ gen = NoGen /\ cli = NoCli
GeneratorIdle ==
  /\ inventory = [state |-> "missing", vehicles |-> <<>>]
  /\ pages = {}
  /\ sitemap = [state |-> "missing", urls |-> <<>>]
  /\ gpc = "idle" /\ gi = 0 /\ vdpUrls = <<>> /\ count = 0
  /\ today = 1 /\ runs = 0 /\ hist = <<>>
ClientIdle ==
  /\ served = [kind |-> "neterror", vehicles |-> <<>>]
  /\ vehicles = <<>> /\ limit = [nan |-> TRUE, n |-> 0]
  /\ grid = [kind |-> "initial", cards |-> <<>>, op |-> [name |-> "none"]]
  /\ pending = 0 /\ calls = 0 /\ fetches = 0 /\ returned = <<>>

(***************************************************************************)
(* SpecDerive: one Vehicle record and one configuration, taken through the *)
(* generator's loop body (lines 114-143) and through the client loader's   *)
(* buildVDPUrl / vehicleId.                                                *)
(***************************************************************************)
InitDerive ==
  /\ rec \in Vehicles
  /\ conf \in Confs
  /\ gen = NoGen
  /\ cli = NoCli
  /\ GeneratorIdle
  /\ ClientIdle
  /\ AdminIdle

\* Lines 114-117 and 135-143 of the generator for $v = rec
GenDerive ==
  /\ gen' = [done |-> TRUE,
             id |-> Slug_Id(rec),
             tail |-> Slug_Tail(rec, conf),
             relDir |-> RelDir(rec, conf),
             pageUrl |-> PageUrl(rec, conf),
             priceStr |-> PriceStr(rec),
             milesStr |-> MilesStr(rec)]
  /\ UNCHANGED <<rec, conf, cli, gvars, cvars, avars>>

\* The link the loader puts on the card of rec (createVehicleCard)
ClientDerive ==
  /\ cli' = [done |-> TRUE, id |-> vehicleId(rec), url |-> buildVDPUrl(rec),
             priceRange |-> getPriceRange(rec.price)]
  /\ UNCHANGED <<rec, conf, gen, gvars, cvars, avars>>

NextDerive == GenDerive \/ ClientDerive
SpecDerive == InitDerive /\ [][NextDerive]_vars

(***************************************************************************)
(* Claims settled under SpecDerive.                                        *)
(***************************************************************************)
\* C1: for every Vehicle record the generator's Slug-Id and the loader's
\* vehicleId return the same identifier.
C1_SameIdentifier == (gen.done /\ cli.done) => gen.id = cli.id

\* C2: for a vehicle whose vin is set, neither the generator's page path and
\* page URL nor the loader's link contains the VIN.
C2_NoVinInUrl ==
  Truthy(rec.vin) =>
    /\ gen.done => /\ ~Contains(gen.relDir \o "/", AsString(rec.vin))
                   /\ ~Contains(gen.pageUrl, AsString(rec.vin))
    /\ cli.done => ~Contains(cli.url, AsString(rec.vin))

\* C5: a vehicle with no identity field, no vin and no descriptive field gets
\* "v" + the first 10 hex digits of SHA-1("NA") in both implementations.
NoSeedInput(v) ==
  /\ ~Truthy(v.vehicleId) /\ ~Truthy(v.stockNumber) /\ ~Truthy(v.id)
  /\ ~Truthy(v.vin)
  /\ \A i \in 1..7 : ~Truthy(SeedFields(v)[i])
C5_BlankFallsBackToNA ==
  NoSeedInput(rec) =>
    /\ gen.done => gen.id = "v" \o SubSeq(sha1Hex("NA"), 1, 10) /\ Len(gen.id) = 11
    /\ cli.done => cli.id = "v" \o SubSeq(sha1Hex("NA"), 1, 10) /\ Len(cli.id) = 11

\* C6: the loader's link is exactly the path the generator wrote the page
\* under, "vdp/" + identifier + "/" + slug + "/".
C6_SamePath ==
  (gen.done /\ cli.done) =>
    cli.url = "vdp/" \o gen.id \o "/" \o gen.tail \o "/"

\* C7: the end-to-end example yields identifier A1234, slug
\* Used-2020-Ford-F-150-XLT-for-sale-in-Greenville-NC-27858 and the path
\* vdp/A1234/Used-2020-Ford-F-150-XLT-for-sale-in-Greenville-NC-27858/.
C7_EndToEndExample ==
  (gen.done /\ rec = Example /\ conf.City = "Greenville" /\ conf.State = "NC"
     /\ conf.Zip = "27858") =>
    /\ gen.id = "A1234"
    /\ gen.tail = "Used-2020-Ford-F-150-XLT-for-sale-in-Greenville-NC-27858"
    /\ gen.relDir \o "/"
         = "vdp/A1234/Used-2020-Ford-F-150-XLT-for-sale-in-Greenville-NC-27858/"
C7_Witness == gen.done /\ rec = Example /\ conf = DefaultConf

\* C10: the price string is "Call for Price" exactly when the price is absent
\* or not numeric and otherwise "$" + the price with thousands separators; the
\* mileage string is "Mileage N/A" exactly when the mileage is absent or not
\* numeric and otherwise the mileage with thousands separators + " miles".
C10_FallbackFormatting ==
  LET IsNumeric(val) == val.k = "num" \/ (val.k = "str" /\ IsDigits(val.s))
      NumericValue(val) == IF val.k = "num" THEN val.n ELSE ParseNat(val.s)
      Grouped(str, n) ==
        /\ StripNonAlnum(str) = NatToString(n)
        /\ Len(str) > 0 /\ CharAt(str, 1) # ","
        /\ \A i \in 1..Len(str) :
             (CharAt(str, i) = ",") <=> ((Len(str) - i + 1) % 4 = 0)
  IN gen.done =>
       /\ IF IsNumeric(rec.price)
          THEN /\ Len(gen.priceStr) > 1
               /\ CharAt(gen.priceStr, 1) = "$"
               /\ Grouped(Tail(gen.priceStr), NumericValue(rec.price))
          ELSE gen.priceStr = "Call for Price"
       /\ IF IsNumeric(rec.mileage)
          THEN /\ Len(gen.milesStr) > 6
               /\ SubSeq(gen.milesStr, Len(gen.milesStr) - 5,
                         Len(gen.milesStr)) = " miles"
               /\ Grouped(SubSeq(gen.milesStr, 1, Len(gen.milesStr) - 6),
                          NumericValue(rec.mileage))
          ELSE gen.milesStr = "Mileage N/A"

(***************************************************************************)
(* The generated page.  The here-string of lines 252-540 is modelled by    *)
(* the lines that embed values of the vehicle: title, description,         *)
(* canonical link, VIN/stock line, price and mileage.                      *)
(***************************************************************************)
\* System.Net.WebUtility.HtmlEncode on one character
EscapeChar(c) ==
  IF c = "&" THEN "&amp;"
  ELSE IF c = "<" THEN "&lt;"
  ELSE IF c = ">" THEN "&gt;"
  ELSE IF c = "\"" THEN "&quot;"
  ELSE IF c = "'" THEN "&#39;"
  ELSE c
Escape_Html(val) ==
  LET str == AsString(val)
  IN ConcatAll([i \in 1..Len(str) |-> EscapeChar(CharAt(str, i))], 1, Len(str))

\* Lines 128-129
FullTitle(v) ==
  LET title == Trim(AsString(v.year) \o " " \o AsString(v.make) \o " "
                      \o AsString(v.model))
  IN Trim(title \o " " \o AsString(v.trim))

\* Lines 130-133
StockLabel(v) ==
  IF Escape_Html(v.stockNumber) # "" THEN Escape_Html(v.stockNumber)
  ELSE IF Escape_Html(v.vin) # "" THEN Escape_Html(v.vin)
  ELSE "-"

\* A page that also carries the date of the run
PageHtml_Dated(v, c) ==
  "<title>" \o Escape_Html(S(FullTitle(v))) \o "</title>"
    \o "<link rel=\"canonical\" href=\"" \o PageUrl(v, c) \o "\">"
    \o "<p>Updated " \o NatToString(today) \o "</p>"

PageHtml(v, c) ==
  "<title>" \o Escape_Html(S(FullTitle(v))) \o " for Sale in " \o c.City
    \o " " \o c.State \o " " \o c.Zip \o "</title>"
    \o "<meta name=\"description\" content=\"" \o MilesStr(v) \o ", "
    \o PriceStr(v) \o ". VIN " \o Escape_Html(v.vin) \o ".\">"
    \o "<link rel=\"canonical\" href=\"" \o PageUrl(v, c) \o "\">"
    \o "<div>VIN: " \o Escape_Html(v.vin) \o " Stock: " \o StockLabel(v)
    \o "</div><div class=\"vdp-price\">" \o PriceStr(v) \o "</div>"

\* A write that clears the output directory first
WriteFile_Clearing(disk, path, html) == {[path |-> path, html |-> html]}
\* Set-Content -Path $outPath: the file is created or overwritten
WriteFile(disk, path, html) ==
  {f \in disk : f.path # path} \cup {[path |-> path, html |-> html]}

(***************************************************************************)
(* Update-Sitemap (lines 61-96).                                           *)
(***************************************************************************)
UpperChars == "ABCDEFGHIJKLMNOPQRSTUVWXYZ"
LowerChars == "abcdefghijklmnopqrstuvwxyz"
UpperSet == CharsOf(UpperChars)
LowerChar(c) ==
  IF c \in UpperSet THEN CharAt(LowerChars, IndexIn(UpperChars, c))
  ELSE c
ToLower(str) ==
  ConcatAll([i \in 1..Len(str) |-> LowerChar(CharAt(str, i))], 1, Len(str))

\* text -like "*" + lit + "*" for a lit without wildcard characters: a
\* case-insensitive substring test.
Like(text, lit) == Contains(ToLower(text), ToLower(lit))

\* The text between the two stars of the pattern on line 73.  The escape
\* character of a wildcard pattern is the backquote, so both backslashes are
\* ordinary characters of the pattern.
VdpPattern == "\\/vdp\\/"

\* Get-Date formatted yyyy-MM-dd (line 78); days are numbered within a month
DateString(day) ==
  "2026-01-" \o (IF day < 10 THEN "0" ELSE "") \o NatToString(day)

\* Lines 80-88: the url node appended for one generated URL
NewEntry(u, day) ==
  [loc |-> u, lastmod |-> DateString(day), changefreq |-> "weekly",
   priority |-> "0.6"]

\* Lines 72-75: the test that removes a url node
IsOldVdp(e) == e.loc # "" /\ Like(e.loc, VdpPattern)
KeptEntry(e) == ~IsOldVdp(e)

\* Lines 92-94: the warning of the catch block, "" when nothing was caught
SitemapWarning(sm) ==
  IF sm.state = "unparseable" THEN "[WARN] Could not update sitemap.xml" ELSE ""

\* An update that appends one node per distinct URL
Update_Sitemap_Distinct(sm, urls, day) ==
  IF sm.state = "missing" THEN sm
  ELSE IF sm.state = "unparseable" THEN sm
  ELSE LET first == {i \in 1..Len(urls) :
                       \A j \in 1..(i - 1) : urls[j] # urls[i]}
           Nth(k) == CHOOSE i \in first :
                       Cardinality({j \in first : j < i}) = k - 1
       IN [sm EXCEPT !.urls =
             SelectSeq(sm.urls, KeptEntry)
               \o [k \in 1..Cardinality(first) |->
                     NewEntry(urls[Nth(k)], day)]]
\* An update that starts a sitemap when none exists
Update_Sitemap_Creating(sm, urls, day) ==
  IF sm.state = "unparseable" THEN sm
  ELSE [state |-> "ok",
        urls |-> SelectSeq(sm.urls, KeptEntry)
                   \o [i \in 1..Len(urls) |-> NewEntry(urls[i], day)]]
Update_Sitemap(sm, urls, day) ==
  IF sm.state = "missing" THEN sm
  ELSE IF sm.state = "unparseable" THEN sm
  ELSE [sm EXCEPT !.urls = SelectSeq(sm.urls, KeptEntry)
                             \o [i \in 1..Len(urls) |-> NewEntry(urls[i], day)]]

(***************************************************************************)
(* Spec: runs of the generator script against an inventory file, an output *)
(* directory and its sitemap.xml.                                          *)
(***************************************************************************)
MaxVehicles == 2
MaxRuns == 2
MaxDay == 2

\* Vehicles of the generator runs: the example; a record with another stock
\* number whose price and mileage are not numbers; a sold record without
\* identity field.  A list may hold the same record twice.
Unparseable ==
  [Example EXCEPT !.stockNumber = S("A-1234"), !.price = S("not-a-number"),
                  !.mileage = S("unknown")]
SoldNoId ==
  [Blank EXCEPT !.year = N(2020), !.make = S("Ford"), !.status = S("sold")]
GenVehicles == {Example, Unparseable, SoldNoId}

VehicleLists ==
  UNION {[1..n -> GenVehicles] : n \in 0..MaxVehicles}

Inventories ==
  {[state |-> "missing", vehicles |-> <<>>],
   [state |-> "invalid", vehicles |-> <<>>],
   [state |-> "nokey", vehicles |-> <<>>]}
    \cup {[state |-> "ok", vehicles |-> vs] : vs \in VehicleLists}

HomeEntry ==
  [loc |-> "https://bellsforkautoandtruck.com/", lastmod |-> "2025-12-31",
   changefreq |-> "daily", priority |-> "1.0"]
StaleEntry ==
  [loc |-> "https://bellsforkautoandtruck.com/vdp/OLD1/Used-2015-Honda-Civic-for-sale-in-Greenville-NC-27858/",
   lastmod |-> "2025-12-31", changefreq |-> "weekly", priority |-> "0.6"]
BackslashEntry ==
  [loc |-> "https://bellsforkautoandtruck.com\\/VDP\\/X1/",
   lastmod |-> "2025-12-31", changefreq |-> "weekly", priority |-> "0.6"]

Sitemaps ==
  {[state |-> "missing", urls |-> <<>>],
   [state |-> "unparseable", urls |-> <<>>]}
    \cup {[state |-> "ok", urls |-> us] :
            us \in {<<>>, <<HomeEntry, StaleEntry>>,
                    <<HomeEntry, BackslashEntry, StaleEntry>>}}

GenConfs == {DefaultConf, [DefaultConf EXCEPT !.NoUpdateSitemap = TRUE]}

\* The pages of the vehicles an inventory can hold, computed once
PageTable ==
  {[vehicle |-> v, conf |-> c, html |-> PageHtml(v, c), id |-> Slug_Id(v)] :
     v \in GenVehicles, c \in GenConfs}
PageEntry(v, c) == CHOOSE e \in PageTable : e.vehicle = v /\ e.conf = c
PageOf(v, c) == PageEntry(v, c).html
IdOf(v, c) == PageEntry(v, c).id

Init ==
  /\ conf \in GenConfs
  /\ inventory \in Inventories
  /\ sitemap \in Sitemaps
  /\ pages = {}
  /\ gpc = "idle" /\ gi = 0 /\ vdpUrls = <<>> /\ count = 0
  /\ today = 1 /\ runs = 0 /\ hist = <<>>
  /\ rec = Blank /\ gen = NoGen /\ cli = NoCli
  /\ ClientIdle
  /\ AdminIdle

\* The record kept of one run: what it read, what it wrote, how it ended.
NewRun(vs) ==
  [input |-> inventory.state, vehicles |-> vs, written |-> {}, exit |-> -1,
   msg |-> "", warn |-> "", sitemap |-> sitemap, before |-> sitemap,
   urls |-> <<>>, count |-> 0, paths |-> <<>>]

\* A load that accepts an empty vehicles list
InventoryError_AllowEmpty(inv) ==
  IF inv.state = "missing" THEN "Inventory file not found"
  ELSE IF inv.state # "ok" THEN "inventory.json missing vehicles[]"
  ELSE ""
\* A run that reads no vehicles reports nothing
InventoryError_None(inv) == ""
\* Lines 99-108: the message of Write-Error before exit 1, "" when the
\* inventory has vehicles.  ConvertFrom-Json of an invalid file ends that
\* statement only and leaves $data empty.
InventoryError(inv) ==
  IF inv.state = "missing" THEN "Inventory file not found"
  ELSE IF inv.state # "ok" \/ inv.vehicles = <<>>
  THEN "inventory.json missing vehicles[]"
  ELSE ""

\* Lines 98-111: load the inventory, exit 1 when the file is missing or has
\* no vehicles
LoadInventory ==
  /\ gpc = "idle"
  /\ runs < MaxRuns
  /\ runs' = runs + 1
  /\ IF InventoryError(inventory) # ""
     THEN /\ hist' = Append(hist, [NewRun(<<>>) EXCEPT
                                     !.exit = 1,
                                     !.msg = InventoryError(inventory)])
          /\ UNCHANGED <<gpc, gi, vdpUrls, count>>
     ELSE /\ hist' = Append(hist, NewRun(inventory.vehicles))
          /\ gpc' = "loop"
          /\ gi' = 1
          /\ vdpUrls' = <<>>
          /\ count' = 0
  /\ UNCHANGED <<inventory, pages, sitemap, today, dvars, cvars, avars>>

\* Lines 113-546: one iteration of the foreach loop
ProcessVehicle ==
  /\ gpc = "loop"
  /\ gi <= Len(inventory.vehicles)
  /\ LET v == inventory.vehicles[gi]
         html == PageOf(v, conf)
         outPath == OutPath(v, conf)
     IN /\ pages' = WriteFile(pages, outPath, html)
        /\ hist' = [hist EXCEPT ![Len(hist)] =
                      [@ EXCEPT !.written = WriteFile(@, outPath, html),
                                !.paths = Append(@, outPath)]]
        /\ vdpUrls' = Append(vdpUrls, PageUrl(v, conf))
  /\ count' = count + 1
  /\ gi' = gi + 1
  /\ UNCHANGED <<inventory, sitemap, gpc, today, runs, dvars, cvars, avars>>

\* Lines 548-552: the sitemap step and the report, after the loop
Finish ==
  /\ gpc = "loop"
  /\ gi > Len(inventory.vehicles)
  /\ sitemap' = IF conf.NoUpdateSitemap THEN sitemap
                ELSE Update_Sitemap(sitemap, vdpUrls, today)
  /\ hist' = [hist EXCEPT ![Len(hist)] =
                [@ EXCEPT !.exit = 0, !.sitemap = sitemap', !.urls = vdpUrls,
                          !.count = count,
                          !.warn = IF conf.NoUpdateSitemap THEN ""
                                   ELSE SitemapWarning(sitemap)]]
  /\ gpc' = "idle"
  /\ UNCHANGED <<inventory, pages, gi, vdpUrls, count, today, runs, dvars,
                 cvars, avars>>

\* Between runs: the calendar advances
DayPasses ==
  /\ gpc = "idle"
  /\ runs > 0
  /\ today < MaxDay
  /\ today' = today + 1
  /\ UNCHANGED <<inventory, pages, sitemap, gpc, gi, vdpUrls, count, runs,
                 hist, dvars, cvars, avars>>

\* Between runs: the last vehicle is taken out of the inventory file
RemoveVehicle ==
  /\ gpc = "idle"
  /\ runs > 0
  /\ inventory.state = "ok"
  /\ Len(inventory.vehicles) > 0
  /\ inventory' = [inventory EXCEPT
                     !.vehicles = SubSeq(@, 1, Len(@) - 1)]
  /\ UNCHANGED <<pages, sitemap, gpc, gi, vdpUrls, count, today, runs, hist,
                 dvars, cvars, avars>>

Next == LoadInventory \/ ProcessVehicle \/ Finish \/ DayPasses \/ RemoveVehicle
Spec == Init /\ [][Next]_vars

(***************************************************************************)
(* Claims settled under Spec.                                              *)
(***************************************************************************)
\* Two consecutive completed runs over the same vehicles
SameInventoryRuns(i) ==
  /\ i + 1 <= Len(hist)
  /\ hist[i].exit = 0 /\ hist[i + 1].exit = 0
  /\ hist[i].vehicles = hist[i + 1].vehicles

\* C3: when the generator runs twice in a row on the same inventory with an
\* existing sitemap, the sitemap has as many url entries after the second run
\* as after the first.
C3_NoDuplicateEntries ==
  \A i \in 1..Len(hist) :
    (SameInventoryRuns(i) /\ hist[i].before.state = "ok"
       /\ ~conf.NoUpdateSitemap) =>
      Len(hist[i + 1].sitemap.urls) = Len(hist[i].sitemap.urls)

\* C4: after Update-Sitemap completes on an existing, parseable sitemap, the
\* /vdp/ locations of the sitemap are exactly the page URLs generated in this
\* run.
C4_VdpEntriesReplaced ==
  \A i \in 1..Len(hist) :
    (hist[i].exit = 0 /\ hist[i].before.state = "ok"
       /\ ~conf.NoUpdateSitemap) =>
      {hist[i].sitemap.urls[j].loc : j \in
         {k \in 1..Len(hist[i].sitemap.urls) :
            Contains(hist[i].sitemap.urls[k].loc, "/vdp/")}}
        = {hist[i].urls[j] : j \in 1..Len(hist[i].urls)}

JsString(val) == IF val.k = "null" THEN "undefined" ELSE AsString(val)

\* new Date(dateAdded) - 0 for an ISO date string, ordered as the calendar;
\* new Date(0) when the field is falsy (lines 62-63)
DateValue(val) ==
  IF ~Truthy(val) THEN 0
  ELSE IF val.k = "num" THEN val.n
  ELSE IF IsDigits(StripNonAlnum(val.s)) THEN ParseNat(StripNonAlnum(val.s))
  ELSE 0

\* A view left in document order
SortByDateDesc_Unsorted(vs) == vs
\* Array.prototype.sort with the comparator dateB - dateA (stable): insert
\* each element after the elements that do not sort behind it
RECURSIVE SortByDateDesc(_)
SortByDateDesc(vs) ==
  IF Len(vs) <= 1 THEN vs
  ELSE LET head == SortByDateDesc(SubSeq(vs, 1, Len(vs) - 1))
           last == vs[Len(vs)]
           k == Cardinality({i \in 1..Len(head) :
                               DateValue(head[i].dateAdded)
                                 >= DateValue(last.dateAdded)})
       IN SubSeq(head, 1, k) \o <<last>> \o SubSeq(head, k + 1, Len(head))

\* Array.prototype.slice(0, end)
Slice0(vs, end) ==
  IF end >= 0 THEN SubSeq(vs, 1, IF end < Len(vs) THEN end ELSE Len(vs))
  ELSE SubSeq(vs, 1, Len(vs) + end)

\* Line 60
IsAvailable(v) == v.status = S("available") \/ ~Truthy(v.status)

\* Lines 59-67
getMostRecent(vs, lim) ==
  LET sorted == SortByDateDesc(SelectSeq(vs, IsAvailable))
  IN IF lim.nan THEN sorted ELSE Slice0(sorted, lim.n)

\* Lines 81-145: the parts of a card that identify the vehicle
createVehicleCard(v) ==
  [id |-> vehicleId(v), href |-> buildVDPUrl(v),
   price |-> getPriceRange(v.price), vehicle |-> v]

\* Vehicles of the fetched documents: every status, two types, two prices
Truck(status) ==
  [Example EXCEPT !.status = status, !.type = S("truck"),
                  !.dateAdded = S("2026-01-05")]
Sedan(status) ==
  [Blank EXCEPT !.stockNumber = S("B-2"), !.year = N(2018),
                !.make = S("Toyota"), !.model = S("Camry"),
                !.price = N(15000), !.type = S("car"), !.status = status,
                !.dateAdded = S("2026-01-09")]
Undated ==
  [Sedan(S("available")) EXCEPT !.stockNumber = S("C-3"), !.dateAdded = Null]
ClientVehicles ==
  {Truck(Null), Truck(S("sold")), Truck(S("draft")),
   Sedan(S("available")), Sedan(S("pending")), Sedan(S("disabled")),
   Undated}

\* The cards of the vehicles a fetched document can hold, computed once
CardTable == {createVehicleCard(v) : v \in ClientVehicles}
CardOf(v) == CHOOSE c \in CardTable : c.vehicle = v

\* Lines 70-79 (the grid element exists whenever a loader is created by the
\* DOMContentLoaded handler, line 199)
renderVehicles(vs, op) ==
  IF Len(vs) = 0
  THEN [kind |-> "empty", cards |-> <<>>, op |-> op]
  ELSE [kind |-> "cards",
        cards |-> [i \in 1..Len(vs) |-> CardOf(vs[i])], op |-> op]

\* A failure that leaves the grid as it is
showError_Silent(g) == g
\* Lines 165-172
showError(g) == [kind |-> "error", cards |-> <<>>, op |-> [name |-> "load"]]

\* Lines 177-179
searchMatch(v, q) ==
  \/ q = ""
  \/ Contains(ToLower(JsString(v.year) \o " " \o JsString(v.make) \o " "
                        \o JsString(v.model) \o " "
                        \o (IF Truthy(v.trim) THEN AsString(v.trim) ELSE "")
                        \o " "
                        \o (IF Truthy(v.description) THEN AsString(v.description)
                            ELSE "")),
              ToLower(q))
\* Line 181
typeMatch(v, type) == type = "all" \/ v.type = S(type)
\* Lines 183-184
priceMatch(v, priceRange) ==
  priceRange = "all" \/ getPriceRange(v.price) = priceRange
\* A filter that ignores the status
statusMatch_Ignored(v) == TRUE
\* Line 186
statusMatch(v) == v.status = S("available") \/ ~Truthy(v.status)

\* Texts typed into the search box
Queries == {"", "ford"}

\* Lines 176-189
Filtered(vs, q, type, priceRange) ==
  LET keep(v) == searchMatch(v, q) /\ typeMatch(v, type)
                   /\ priceMatch(v, priceRange) /\ statusMatch(v)
  IN SelectSeq(vs, keep)

(***************************************************************************)
(* SpecClient: a page with an inventory grid, its loader, and the filter   *)
(* controls.                                                               *)
(***************************************************************************)
MaxServed == 2
MaxCalls == 2

\* The vehicles arrays served: each vehicle listed at most once
ServedLists ==
  {vs \in UNION {[1..n -> ClientVehicles] : n \in 0..MaxServed} :
     \A i, j \in 1..Len(vs) : vs[i] = vs[j] => i = j}

Responses ==
  {[kind |-> "neterror", vehicles |-> <<>>],
   [kind |-> "http404", vehicles |-> <<>>],
   [kind |-> "badjson", vehicles |-> <<>>],
   [kind |-> "nokey", vehicles |-> <<>>]}
    \cup {[kind |-> "ok", vehicles |-> vs] : vs \in ServedLists}

NaN == [nan |-> TRUE, n |-> 0]
Limits == {NaN, [nan |-> FALSE, n |-> 1]}

TypeChoices == {"all", "truck"}
PriceChoices == {"all", "20to30"}

InitClient ==
  /\ served \in Responses
  /\ limit \in Limits
  /\ vehicles = <<>>
  /\ grid = [kind |-> "initial", cards |-> <<>>, op |-> [name |-> "none"]]
  /\ pending = 0
  /\ calls = 0
  /\ fetches = 0
  /\ returned = <<>>
  /\ DeriveIdle
  /\ GeneratorIdle
  /\ AdminIdle

\* Line 42: loadInventory is called and awaits fetch(this.jsonPath)
LoadCall ==
  /\ calls < MaxCalls
  /\ calls' = calls + 1
  /\ pending' = pending + 1
  /\ fetches' = fetches + 1
  /\ UNCHANGED <<served, vehicles, limit, grid, returned, dvars, gvars, avars>>

\* A completion that applies the filter of the render it replaces again
LoadResolve_Refiltering ==
  /\ pending > 0
  /\ served.kind \in {"ok", "nokey"}
  /\ pending' = pending - 1
  /\ vehicles' = served.vehicles
  /\ grid' = IF grid.op.name = "filter"
             THEN renderVehicles(Filtered(served.vehicles, grid.op.q,
                                          grid.op.type, grid.op.price),
                                 [name |-> "load", over |-> grid.op.name])
             ELSE renderVehicles(getMostRecent(served.vehicles, limit),
                                 [name |-> "load", over |-> grid.op.name])
  /\ returned' = served.vehicles
  /\ UNCHANGED <<served, limit, calls, fetches, dvars, gvars, avars>>

\* Lines 43-49: the response arrived with a vehicles document; the render of
\* line 49 overwrites whatever render came before it (op.over names it)
LoadResolve ==
  /\ pending > 0
  /\ served.kind \in {"ok", "nokey"}
  /\ pending' = pending - 1
  /\ vehicles' = served.vehicles
  /\ grid' = renderVehicles(getMostRecent(served.vehicles, limit),
                            [name |-> "load", over |-> grid.op.name])
  /\ returned' = served.vehicles
  /\ UNCHANGED <<served, limit, calls, fetches, dvars, gvars, avars>>

\* Lines 51-55: fetch rejected, the status was not ok, or the body did not
\* parse
LoadFail ==
  /\ pending > 0
  /\ served.kind \in {"neterror", "http404", "badjson"}
  /\ pending' = pending - 1
  /\ grid' = showError(grid)
  /\ returned' = <<>>
  /\ UNCHANGED <<served, vehicles, limit, calls, fetches, dvars, gvars, avars>>

\* A filter that narrows what the grid shows at the moment
FilterVehicles_OfRendered ==
  \E q \in Queries, type \in TypeChoices, priceRange \in PriceChoices :
    /\ calls > 0
    /\ grid' = renderVehicles(
                 Filtered([i \in 1..Len(grid.cards) |-> grid.cards[i].vehicle],
                          q, type, priceRange),
                 [name |-> "filter", q |-> q, type |-> type,
                  price |-> priceRange])
    /\ UNCHANGED <<served, vehicles, limit, pending, calls, fetches, returned,
                   dvars, gvars, avars>>
\* Lines 175-192, called by applyFilters (lines 210-215), whose listeners
\* are installed after the call of loadInventory on line 202
FilterVehicles ==
  \E q \in Queries, type \in TypeChoices, priceRange \in PriceChoices :
    /\ calls > 0
    /\ grid' = renderVehicles(Filtered(vehicles, q, type, priceRange),
                              [name |-> "filter", q |-> q, type |-> type,
                               price |-> priceRange])
    /\ UNCHANGED <<served, vehicles, limit, pending, calls, fetches, returned,
                   dvars, gvars, avars>>

\* The server, which answered with the inventory document, becomes
\* unreachable while a load is still to come
ServerBreaks ==
  /\ served.kind \in {"ok", "nokey"}
  /\ pending > 0 \/ calls < MaxCalls
  /\ served' = [kind |-> "neterror", vehicles |-> <<>>]
  /\ UNCHANGED <<vehicles, limit, grid, pending, calls, fetches, returned,
                 dvars, gvars, avars>>

NextClient ==
  LoadCall \/ LoadResolve \/ LoadFail \/ FilterVehicles \/ ServerBreaks
SpecClient == InitClient /\ [][NextClient]_vars

(***************************************************************************)
(* Claims settled under SpecClient.                                        *)
(***************************************************************************)
\* C8: after any sequence of loadInventory and filterVehicles calls, every
\* vehicle in the grid has status "available" or no status, and the grid is
\* what the same call renders when every missing status is written out as
\* "available".
C8_OnlyAvailableRendered ==
  LET WithStatus(v) ==
        IF v.status = Null THEN [v EXCEPT !.status = S("available")] ELSE v
      Normal(vs) == [i \in 1..Len(vs) |-> WithStatus(vs[i])]
      shown == [i \in 1..Len(grid.cards) |-> grid.cards[i].vehicle]
  IN /\ \A i \in 1..Len(shown) :
          shown[i].status = Null \/ shown[i].status = S("available")
     /\ grid.op.name = "load" /\ grid.kind # "error" =>
          Normal(shown) = getMostRecent(Normal(vehicles), limit)
     /\ grid.op.name = "filter" =>
          Normal(shown) = Filtered(Normal(vehicles), grid.op.q, grid.op.type,
                                   grid.op.price)
C8_Witness ==
  /\ grid.kind = "cards"
  /\ grid.op.name = "filter"
  /\ \E i \in 1..Len(grid.cards) : grid.cards[i].vehicle.status = Null
  /\ \E i \in 1..Len(vehicles) : vehicles[i].status = S("sold")

(***************************************************************************)
(* Error handling of the generator.                                        *)
(***************************************************************************)
\* C11: a run whose inventory is missing, malformed or without a vehicles
\* list reports an error and exits non-zero in its first step; that step
\* writes no page and leaves the sitemap as it was, and no loop follows.
C11_FatalInventory ==
  [][(runs' = runs + 1 /\ inventory.state \in {"missing", "invalid", "nokey"})
       => /\ pages' = pages
          /\ sitemap' = sitemap
          /\ gpc' = "idle"
          /\ hist'[Len(hist')].exit = 1
          /\ hist'[Len(hist')].msg # ""
          /\ hist'[Len(hist')].written = {}]_vars
C11_Witness ==
  /\ \E i \in 1..Len(hist) :
       hist[i].input = "invalid" /\ hist[i].exit = 1 /\ hist[i].msg # ""
  /\ gpc = "idle" /\ pages = {}

\* C12: a run over an inventory holding a vehicle whose price or mileage is
\* not a number ends with exit 0; it has counted one page per vehicle record,
\* a page file stands at the path of every vehicle, and the page of such a
\* vehicle shows the fallback text.
C12_UnparseableDoesNotAbort ==
  LET r == hist[Len(hist)]
      NotNumber(val) == val.k = "str" /\ val.s # "" /\ ~IsDigits(val.s)
      LastAt(j) == \A k \in (j + 1)..Len(r.vehicles) : r.paths[k] # r.paths[j]
      FileAt(j) == CHOOSE f \in r.written : f.path = r.paths[j]
  IN (Len(hist) > 0 /\ gpc = "idle" /\ r.input = "ok" /\ r.vehicles # <<>>) =>
       /\ r.exit = 0
       /\ r.count = Len(r.vehicles)
       /\ Len(r.paths) = Len(r.vehicles)
       /\ \A j \in 1..Len(r.vehicles) :
            /\ \E f \in r.written : f.path = r.paths[j]
            /\ FileAt(j) \in pages
            /\ (LastAt(j) /\ NotNumber(r.vehicles[j].price)) =>
                 Contains(FileAt(j).html, "Call for Price")
            /\ (LastAt(j) /\ NotNumber(r.vehicles[j].mileage)) =>
                 Contains(FileAt(j).html, "Mileage N/A")
C12_Witness ==
  /\ Len(hist) > 0 /\ gpc = "idle"
  /\ hist[Len(hist)].exit = 0
  /\ hist[Len(hist)].vehicles = <<Example, Unparseable>>
  /\ hist[Len(hist)].count = 2

\* C13: a run that finds no sitemap skips the sitemap step and creates none;
\* a run that finds an unparseable sitemap warns and leaves the file as it
\* was; both runs end with exit 0 and a page file for every vehicle.
C13_SitemapBestEffort ==
  LET r == hist[Len(hist)]
  IN (Len(hist) > 0 /\ gpc = "idle" /\ r.input = "ok" /\ r.vehicles # <<>>
        /\ r.before.state \in {"missing", "unparseable"}) =>
       /\ sitemap = r.before
       /\ r.sitemap = r.before
       /\ r.before.state = "missing" => r.warn = ""
       /\ (r.before.state = "unparseable" /\ ~conf.NoUpdateSitemap) =>
            r.warn # ""
       /\ r.exit = 0
       /\ r.count = Len(r.vehicles)
       /\ Len(r.paths) = Len(r.vehicles)
       /\ \A j \in 1..Len(r.vehicles) :
            \E f \in pages : f.path = r.paths[j]
C13_Witness ==
  /\ Len(hist) > 0 /\ gpc = "idle"
  /\ hist[Len(hist)].before.state = "unparseable"
  /\ hist[Len(hist)].warn # ""
  /\ hist[Len(hist)].exit = 0
  /\ pages # {}

(***************************************************************************)
(* Identifier invariants, under SpecDerive.                                *)
(***************************************************************************)
\* C14: in the generator and in the loader every vehicle gets an identifier
\* that is non-empty and made of ASCII letters and digits only.
C14_IdentifierNonEmptyAlnum ==
  /\ gen.done => /\ gen.id # ""
                 /\ \A i \in 1..Len(gen.id) : IsAlnum(CharAt(gen.id, i))
  /\ cli.done => /\ cli.id # ""
                 /\ \A i \in 1..Len(cli.id) : IsAlnum(CharAt(cli.id, i))

\* C20: the identifier comes from the first of vehicleId, stockNumber, id
\* that is non-empty once surrounding whitespace is stripped, and from the
\* hash fallback when none of the three is.
C20_FirstNonBlankField ==
  LET NonBlank(f) == Truthy(f) /\ Trim(AsString(f)) # ""
      chosen == IF NonBlank(rec.vehicleId) THEN rec.vehicleId
                ELSE IF NonBlank(rec.stockNumber) THEN rec.stockNumber
                ELSE IF NonBlank(rec.id) THEN rec.id
                ELSE Null
  IN /\ gen.done =>
          gen.id = IF chosen # Null THEN StripNonAlnum(AsString(chosen))
                   ELSE HashId(SlugIdSeed(rec))
     /\ cli.done =>
          cli.id = IF chosen # Null THEN StripNonAlnum(AsString(chosen))
                   ELSE HashId(vehicleIdSeed(rec))

\* The reference construction of the slug: from the entries, drop the null
\* and empty ones, reduce each to its maximal runs of letters and digits
\* joined by one hyphen, drop what became empty, join the rest by "-".
RefWords(str) ==
  LET starts == {i \in 1..Len(str) :
                   /\ IsAlnum(CharAt(str, i))
                   /\ i = 1 \/ ~IsAlnum(CharAt(str, i - 1))}
      EndOf(a) == CHOOSE j \in a..Len(str) :
                    /\ \A k \in a..j : IsAlnum(CharAt(str, k))
                    /\ j = Len(str) \/ ~IsAlnum(CharAt(str, j + 1))
      Nth(k) == CHOOSE a \in starts : Cardinality({b \in starts : b < a}) = k - 1
  IN [k \in 1..Cardinality(starts) |-> SubSeq(str, Nth(k), EndOf(Nth(k)))]
RefSlug(entries) ==
  LET Present(e) == e # Null /\ AsString(e) # ""
      kept == SelectSeq(entries, Present)
      cleaned == [i \in 1..Len(kept) |-> JoinWith(RefWords(AsString(kept[i])), "-")]
      NotEmpty(str) == str # ""
  IN JoinWith(SelectSeq(cleaned, NotEmpty), "-")

\* C22: the generator's slug is the reference construction over "Used", year,
\* make, model, trim and the configured locality token; the slug in the
\* loader's link is the reference construction over the same fields and the
\* loader's locality token.
C22_SlugIsReference ==
  /\ gen.done =>
       gen.tail = RefSlug(<<S("Used"), rec.year, rec.make, rec.model, rec.trim,
                            S("for-sale-in-" \o conf.City \o "-" \o conf.State
                                \o "-" \o conf.Zip)>>)
  /\ cli.done =>
       cli.url = "/vdp/" \o cli.id \o "/"
                   \o RefSlug(<<S("Used"), rec.year, rec.make, rec.model,
                                rec.trim, S("for-sale-in-Greenville-NC-27858")>>)
                   \o "/"
C22_Witness ==
  /\ gen.done /\ cli.done
  /\ rec.model = S("(Super  Duty)") /\ rec.trim = S("!!") /\ rec.year = Null
  /\ conf.City = "New Bern"
  /\ gen.tail = "Used-Ford-Super-Duty-for-sale-in-New-Bern-NC-28560"

\* C23: every vehicle of the universe that agrees with rec on year, make,
\* model and trim gets the slug of rec, in the generator under the same
\* configuration and in the loader's link, whatever its vehicleId,
\* stockNumber, id and vin are.
SameDescription(v, w) ==
  v.year = w.year /\ v.make = w.make /\ v.model = w.model /\ v.trim = w.trim
LinkSlug(url, id) ==
  SubSeq(url, Len("/vdp/" \o id \o "/") + 1, Len(url) - 1)
C23_SlugIgnoresIdentity ==
  \A v \in Vehicles :
    SameDescription(v, rec) =>
      /\ gen.done => Slug_Tail(v, conf) = gen.tail
      /\ cli.done => LinkSlug(buildVDPUrl(v), vehicleId(v))
                       = LinkSlug(cli.url, cli.id)
C23_Witness ==
  /\ gen.done /\ cli.done
  /\ rec.vehicleId = S("V-100") /\ rec.vin = Null /\ rec.id = N(7)
  /\ \E v \in Vehicles :
       /\ SameDescription(v, rec)
       /\ v.vin = S(ExampleVin) /\ v.vehicleId = Null
       /\ v.stockNumber = S(ExampleVin)

\* C25: the price range on a vehicle's card is under10 only if the price is
\* a number below 10000, 10to20 only if it is a number from 10000 to 19999,
\* 20to30 only if it is a number from 20000 to 29999, and over30 only if it
\* is a number not below 30000; every numeric price gets the range it lies in.
C25_PriceBuckets ==
  LET pr == rec.price
      IsNumber == pr.k = "num" \/ (pr.k = "str" /\ IsDigits(pr.s))
      val == IF pr.k = "num" THEN pr.n ELSE ParseNat(pr.s)
      In(lo, hi) == IsNumber /\ lo <= val /\ (hi = -1 \/ val < hi)
  IN cli.done =>
       /\ cli.priceRange \in {"under10", "10to20", "20to30", "over30"}
       /\ cli.priceRange = "under10" <=> In(0, 10000)
       /\ cli.priceRange = "10to20" <=> In(10000, 20000)
       /\ cli.priceRange = "20to30" <=> In(20000, 30000)
       /\ cli.priceRange = "over30" <=> In(30000, -1)

\* C26: the slug of the generator and the slug in the loader's link are
\* non-empty, start with "Used", hold ASCII letters, digits and hyphens only,
\* neither begin nor end with a hyphen and hold no two hyphens in a row.
WellFormedSlug(slug) ==
  /\ Len(slug) >= 4 /\ SubSeq(slug, 1, 4) = "Used"
  /\ \A i \in 1..Len(slug) : IsAlnum(CharAt(slug, i)) \/ CharAt(slug, i) = "-"
  /\ CharAt(slug, 1) # "-" /\ CharAt(slug, Len(slug)) # "-"
  /\ \A i \in 1..(Len(slug) - 1) :
       ~(CharAt(slug, i) = "-" /\ CharAt(slug, i + 1) = "-")
C26_SlugShape ==
  /\ gen.done => WellFormedSlug(gen.tail)
  /\ cli.done => WellFormedSlug(LinkSlug(cli.url, cli.id))
C26_Witness ==
  /\ gen.done /\ cli.done
  /\ rec.year = Null /\ rec.model = S("(Super  Duty)") /\ rec.trim = S(" ")
  /\ conf.City = "New Bern"
  /\ LinkSlug(cli.url, cli.id) = "Used-Ford-Super-Duty-for-sale-in-Greenville-NC-27858"

\* C21: for a vehicle without vehicleId, stockNumber and id, both
\* implementations return "v" + the first 10 hex digits of the SHA-1 of the
\* seed: the vin if present, else the non-empty values among year, make,
\* model, trim, price, mileage, dateAdded joined by "|", else "NA".
C21_FallbackSeed ==
  LET NonEmpty(val) == val # Null /\ AsString(val) # ""
      kept == SelectSeq(SeedFields(rec), NonEmpty)
      joined == JoinWith([i \in 1..Len(kept) |-> AsString(kept[i])], "|")
      seed == IF NonEmpty(rec.vin) THEN AsString(rec.vin)
              ELSE IF joined # "" THEN joined ELSE "NA"
      expected == "v" \o SubSeq(Sha1(seed), 1, 10)
  IN (rec.vehicleId = Null /\ rec.stockNumber = Null /\ rec.id = Null) =>
       /\ gen.done => gen.id = expected
       /\ cli.done => cli.id = expected

(***************************************************************************)
(* Identity and status in generator runs, under Spec.                      *)
(***************************************************************************)
\* The first non-empty of vehicleId, stockNumber, id; Null when there is none
IdentityField(v) ==
  IF Truthy(v.vehicleId) THEN v.vehicleId
  ELSE IF Truthy(v.stockNumber) THEN v.stockNumber
  ELSE IF Truthy(v.id) THEN v.id
  ELSE Null

\* C15: two vehicles of one inventory whose identity fields differ get
\* different identifiers and are written to different page paths.
C15_DistinctIdentityDistinctPath ==
  \A i \in 1..Len(hist) :
    \A j, k \in 1..Len(hist[i].vehicles) :
      LET a == hist[i].vehicles[j]
          b == hist[i].vehicles[k]
      IN (IdentityField(a) # Null /\ IdentityField(b) # Null
            /\ IdentityField(a) # IdentityField(b)) =>
           /\ IdOf(a, conf) # IdOf(b, conf)
           /\ OutPath(a, conf) # OutPath(b, conf)

\* C16: a run over an inventory holding a vehicle whose status is sold or
\* disabled emits no page URL and no sitemap entry for that vehicle.
C16_TerminalNotPublished ==
  \A i \in 1..Len(hist) :
    \A j \in 1..Len(hist[i].vehicles) :
      LET v == hist[i].vehicles[j]
          r == hist[i]
      IN (r.exit = 0 /\ v.status \in {S("sold"), S("disabled")}) =>
           /\ \A k \in 1..Len(r.urls) : r.urls[k] # PageUrl(v, conf)
           /\ \A k \in 1..Len(r.sitemap.urls) :
                r.sitemap.urls[k].loc # PageUrl(v, conf)

(***************************************************************************)
(* The default view and the filter, under SpecClient.                      *)
(***************************************************************************)
\* C17: the default view holds available vehicles only, newest dateAdded
\* first with the undated ones last; without a limit it holds all of them,
\* with a limit L the first min(L, number available) of that order.
C17_MostRecentOrderAndLimit ==
  LET shown == [i \in 1..Len(grid.cards) |-> grid.cards[i].vehicle]
      Avail(v) == v.status = Null \/ v.status = S("available")
      avail == SelectSeq(vehicles, Avail)
      Dated(v) == v.dateAdded # Null
      Key(v) == ParseNat(StripNonAlnum(v.dateAdded.s))
      NotBefore(a, b) ==       \* a may stand before b in the view
        \/ ~Dated(b)
        \/ Dated(a) /\ Key(a) >= Key(b)
      Times(v, vs) == Cardinality({i \in 1..Len(vs) : vs[i] = v})
      Min(a, b) == IF a < b THEN a ELSE b
  IN (grid.op.name = "load" /\ grid.kind # "error") =>
       /\ \A i, j \in 1..Len(shown) : i < j => NotBefore(shown[i], shown[j])
       /\ Len(shown) = IF limit.nan THEN Len(avail)
                       ELSE Min(limit.n, Len(avail))
       /\ \A v \in ClientVehicles :
            /\ Times(v, shown) <= Times(v, avail)
            /\ Times(v, shown) < Times(v, avail) =>
                 \A i \in 1..Len(shown) : NotBefore(shown[i], v)
C17_Witness ==
  /\ grid.op.name = "load" /\ grid.kind = "cards"
  /\ vehicles = <<Undated, Sedan(S("available"))>>
  /\ ~limit.nan
  /\ grid.cards[1].vehicle = Sedan(S("available"))

\* C18: the step in which a fetch fails (network error, status not ok, body
\* not parseable) puts the error state in place of the grid, sends no new
\* request, resolves to the empty list and leaves this.vehicles as it was.
C18_FetchFailure ==
  [][(pending' = pending - 1
        /\ served.kind \in {"neterror", "http404", "badjson"})
       => /\ grid'.kind = "error" /\ grid'.cards = <<>>
          /\ fetches' = fetches
          /\ fetches' = calls'
          /\ returned' = <<>>
          /\ vehicles' = vehicles]_vars
C18_Witness ==
  /\ grid.kind = "error"
  /\ vehicles # <<>>
  /\ returned = <<>>
  /\ pending = 0

\* C19: after a filter call the grid holds, in list order, exactly the
\* entries of the whole loaded list that are available and meet the search,
\* type and price criteria of that call, whatever the display limit or an
\* earlier filter call had left in the grid.
C19_FilterUsesFullList ==
  LET shown == [i \in 1..Len(grid.cards) |-> grid.cards[i].vehicle]
      Meets(v) ==
        /\ v.status = Null \/ v.status = S("available")
        /\ searchMatch(v, grid.op.q)
        /\ typeMatch(v, grid.op.type)
        /\ priceMatch(v, grid.op.price)
      kept == {i \in 1..Len(vehicles) : Meets(vehicles[i])}
      Nth(k) == CHOOSE i \in kept : Cardinality({j \in kept : j < i}) = k - 1
  IN grid.op.name = "filter" =>
       /\ Len(shown) = Cardinality(kept)
       /\ \A k \in 1..Len(shown) : shown[k] = vehicles[Nth(k)]
\* With a limit of one the default view held one card; the filter shows both
\* available vehicles.
C19_Witness ==
  /\ grid.op.name = "filter"
  /\ ~limit.nan /\ limit.n = 1
  /\ vehicles = <<Truck(Null), Sedan(S("available"))>>
  /\ Len(grid.cards) = 2

\* C29: a filter call made while the fetch is pending works on the empty
\* list and leaves the no-results message; the completion of the fetch then
\* puts the default most-recent view of the whole fetched list in the grid,
\* with no filter applied to it; and every step that changes the grid leaves
\* the output of its own render there.
C29_FilterWhilePending ==
  [][LET Avail(v) == v.status = Null \/ v.status = S("available")
         Min(a, b) == IF a < b THEN a ELSE b
         avail == SelectSeq(served.vehicles, Avail)
         completes == pending' = pending - 1 /\ served.kind \in {"ok", "nokey"}
         filters == pending' = pending /\ grid' # grid
     IN /\ (filters /\ pending > 0 /\ vehicles = <<>>) =>
             /\ grid'.kind = "empty" /\ grid'.cards = <<>>
             /\ grid'.op.name = "filter"
        /\ completes =>
             /\ grid'.op.name = "load"
             /\ vehicles' = served.vehicles
             /\ Len(grid'.cards) = IF limit.nan THEN Len(avail)
                                   ELSE Min(limit.n, Len(avail))
             /\ \A i \in 1..Len(grid'.cards) :
                  \E j \in 1..Len(avail) : grid'.cards[i].vehicle = avail[j]
             /\ grid'.kind = IF avail = <<>> THEN "empty" ELSE "cards"
        /\ grid' # grid =>
             grid'.op.name = IF pending' < pending THEN "load" ELSE "filter"]_vars
\* One fetch, now complete, whose render replaced the no-results message of a
\* truck filter: the sedan that filter excludes is in the grid.
C29_Witness ==
  /\ calls = 1 /\ pending = 0
  /\ grid.op.name = "load" /\ grid.kind = "cards"
  /\ grid.op.over = "filter"
  /\ vehicles = <<Truck(Null), Sedan(S("available"))>>
  /\ limit.nan
  /\ Len(grid.cards) = 2

(***************************************************************************)
(* Page files across runs, under Spec.                                     *)
(***************************************************************************)
\* C24: no step of any run removes a page file: the set of page paths on disk
\* after a step contains the set before it, also in runs that follow the
\* removal of a vehicle from the inventory.
C24_PagesOnlyGrow ==
  [][{f.path : f \in pages} \subseteq {f.path : f \in pages'}]_vars
\* A completed second run whose inventory no longer holds a vehicle of the
\* first; the page of that vehicle is still on disk.
C24_Witness ==
  /\ Len(hist) = 2 /\ gpc = "idle"
  /\ hist[1].exit = 0 /\ hist[2].exit = 0
  /\ Len(hist[2].vehicles) < Len(hist[1].vehicles)
  /\ \E f \in pages :
       /\ f \in hist[1].written
       /\ \A j \in 1..Len(hist[2].paths) : hist[2].paths[j] # f.path

C28_EmptyListIsFatal ==
  [][(runs' = runs + 1 /\ inventory.state = "ok" /\ inventory.vehicles = <<>>)
       => /\ gpc' = "idle"
          /\ hist'[Len(hist')].exit = 1
          /\ hist'[Len(hist')].msg = InventoryError([state |-> "nokey",
                                                     vehicles |-> <<>>])
          /\ hist'[Len(hist')].msg # ""
          /\ hist'[Len(hist')].written = {}
          /\ hist'[Len(hist')].urls = <<>>
          /\ pages' = pages
          /\ sitemap' = sitemap]_vars
C28_Witness ==
  /\ Len(hist) = 2 /\ gpc = "idle"
  /\ hist[1].exit = 0 /\ hist[1].urls # <<>>
  /\ hist[2].input = "ok" /\ hist[2].exit = 1
  /\ inventory = [state |-> "ok", vehicles |-> <<>>]
  /\ sitemap.state = "ok"
  /\ \E k \in 1..Len(sitemap.urls) : sitemap.urls[k].loc = hist[1].urls[1]

(***************************************************************************)
(* The admin tool (vehicle-manager.js, carried in unused-css-report.js):   *)
(* the submit handler with saveVehicle, deleteVehicle and the inventory    *)
(* table.                                                                  *)
(***************************************************************************)
\* Vehicles the stored list may grow to, and readings of the clock after
\* the first
MaxInventory == 2
MaxClock == 1

\* What the form's fields hold at a submit
AdminForms ==
  {[vin |-> " 1ft ", year |-> "2020", status |-> ""],
   [vin |-> "2G1", year |-> "", status |-> "sold"]}

ToUpper(str) ==
  LET UpperChar(c) ==
        IF c \in CharsOf(LowerChars)
        THEN CharAt(UpperChars, IndexIn(LowerChars, c))
        ELSE c
  IN ConcatAll([i \in 1..Len(str) |-> UpperChar(CharAt(str, i))], 1, Len(str))

\* parseInt(str, 10) of a trimmed field: the leading digits, NaN without any
NaNValue == [k |-> "nan", s |-> "", n |-> 0]
parseInt(str) ==
  LET lead == {j \in 0..Len(str) :
                 \A i \in 1..j : CharAt(str, i) \in DigitChars}
      digits == SubSeq(str, 1, CHOOSE j \in lead : \A o \in lead : o <= j)
  IN IF digits = "" THEN NaNValue ELSE N(ParseNat(digits))

\* new Date().toISOString() at reading t of the clock
toISOString(t) == "2026-01-0" \o NatToString(t + 1) \o "T00:00:00.000Z"

\* Lines 289-315: the vehicle object the submit handler builds
FormVehicle(form, t) ==
  [vin |-> S(ToUpper(Trim(form.vin))),
   year |-> parseInt(Trim(form.year)),
   status |-> S(IF Trim(form.status) = "" THEN "available"
                ELSE Trim(form.status)),
   dateAdded |-> S(toISOString(t))]

\* JSON.stringify: NaN is written as null, an undefined property is left out
\* (and so reads back undefined); the indent changes the text only.
ToJsonVehicle(v) ==
  LET ToJsonValue(val) == IF val.k = "nan" THEN Null ELSE val
  IN [f \in DOMAIN v |-> ToJsonValue(v[f])]
ToJsonDoc(inv) ==
  [haslist |-> inv.haslist,
   vehicles |-> [i \in 1..Len(inv.vehicles) |-> ToJsonVehicle(inv.vehicles[i])],
   lastUpdated |-> inv.lastUpdated]
Stringify(inv, indent) ==
  [kind |-> "json", indent |-> indent, doc |-> ToJsonDoc(inv)]

\* Lines 339-344, 365-370, 414-419: the stored item, or '{"vehicles":[]}'
\* when there is none or it is the empty text, parsed; the empty inventory
\* when JSON.parse throws
ReadInventory(item) ==
  LET EmptyInventory ==
        [haslist |-> TRUE, vehicles |-> <<>>, lastUpdated |-> Undefined]
  IN IF item.kind = "json" THEN item.doc ELSE EmptyInventory

\* A splice that drops the last element whatever the index
Splice_Tail(elems, idx) ==
  IF elems = <<>> THEN elems ELSE SubSeq(elems, 1, Len(elems) - 1)
\* Line 420: splice(idx, 1) for idx >= 0
Splice(elems, idx) ==
  IF idx < Len(elems)
  THEN SubSeq(elems, 1, idx) \o SubSeq(elems, idx + 2, Len(elems))
  ELSE elems

\* Lines 361-410: the rows of the inventory table, one delete button each
loadInventoryTable(item) ==
  LET inv == ReadInventory(item)
  IN IF ~inv.haslist \/ Len(inv.vehicles) = 0 THEN 0 ELSE Len(inv.vehicles)

\* What localStorage may hold when admin.html loads: nothing, a text that is
\* not JSON, the text {} and documents the tool wrote earlier
AdminStores ==
  LET StoredVehicles == {ToJsonVehicle(FormVehicle(f, 0)) : f \in AdminForms}
  IN {NoItem,
      [kind |-> "garbage", indent |-> 0, doc |-> NoDoc],
      [kind |-> "json", indent |-> 0, doc |-> NoDoc]}
       \cup {Stringify([haslist |-> TRUE, vehicles |-> vs,
                        lastUpdated |-> S(toISOString(0))], 0) :
               vs \in {<<>>} \cup {<<v>> : v \in StoredVehicles}}

\* Lines 116-122: the page loads and renders the table
InitAdmin ==
  /\ storage \in AdminStores
  /\ download = NoItem
  /\ tableRows = loadInventoryTable(storage)
  /\ clock = 0
  /\ lastOp = [NoOp EXCEPT !.found = storage]
  /\ DeriveIdle
  /\ GeneratorIdle
  /\ ClientIdle

\* Lines 286-334 with saveVehicle (338-349) and downloadInventoryJSON
\* (351-358): the push of line 345 throws on a document without a vehicles
\* list, before anything is stored, downloaded or rendered.
SubmitVehicle ==
  \E form \in AdminForms :
    LET vehicle == FormVehicle(form, clock)
        inv == ReadInventory(storage)
        saved == [inv EXCEPT !.vehicles = Append(@, vehicle),
                             !.lastUpdated = S(toISOString(clock))]
    IN /\ Len(inv.vehicles) < MaxInventory
       /\ IF ~inv.haslist
          THEN /\ lastOp' = [lastOp EXCEPT !.op = "save-threw", !.idx = 0,
                                           !.before = storage,
                                           !.vehicle = vehicle]
               /\ UNCHANGED <<storage, download, tableRows>>
          ELSE /\ storage' = Stringify(saved, 0)
               /\ download' = Stringify(saved, 2)
               /\ tableRows' = loadInventoryTable(storage')
               /\ lastOp' = [lastOp EXCEPT !.op = "save", !.idx = 0,
                                           !.before = storage,
                                           !.vehicle = vehicle]
       /\ UNCHANGED <<clock, dvars, gvars, cvars>>

\* Lines 412-424, called from the delete button of row idx (line 401)
DeleteVehicle ==
  \E idx \in 0..(tableRows - 1), confirmed \in BOOLEAN :
    LET inv == ReadInventory(storage)
        kept == [inv EXCEPT !.vehicles = Splice(@, idx),
                            !.lastUpdated = S(toISOString(clock))]
    IN /\ IF ~confirmed
          THEN /\ lastOp' = [lastOp EXCEPT !.op = "declined", !.idx = idx,
                                           !.before = storage,
                                           !.vehicle = NoVehicle]
               /\ UNCHANGED <<storage, tableRows>>
          ELSE /\ storage' = Stringify(kept, 0)
               /\ tableRows' = loadInventoryTable(storage')
               /\ lastOp' = [lastOp EXCEPT !.op = "delete", !.idx = idx,
                                           !.before = storage,
                                           !.vehicle = NoVehicle]
       /\ UNCHANGED <<download, clock, dvars, gvars, cvars>>

\* Time passes between two operations
Tick ==
  /\ clock < MaxClock
  /\ clock' = clock + 1
  /\ UNCHANGED <<storage, download, tableRows, lastOp, dvars, gvars, cvars>>

NextAdmin == SubmitVehicle \/ DeleteVehicle \/ Tick
SpecAdmin == InitAdmin /\ [][NextAdmin]_vars

\* C30: after a save the stored list is the list found before it (the empty
\* list when the stored text was absent or not JSON) with the saved vehicle
\* appended, and the downloaded document is the stored document; after a
\* confirmed deletion it is the list found before it without the element at
\* the given index, all others in order; a declined deletion leaves the
\* stored text as it was.  Stated for stored texts that are absent, not JSON,
\* or documents with a vehicles list.
C30_StoreFollowsOperations ==
  LET before == IF lastOp.before.kind = "json"
                THEN lastOp.before.doc.vehicles ELSE <<>>
      now == storage.doc.vehicles
  IN /\ lastOp.op = "save" =>
          /\ storage.kind = "json" /\ storage.doc.haslist
          /\ now = Append(before, ToJsonVehicle(lastOp.vehicle))
          /\ download.kind = "json" /\ download.doc = storage.doc
     /\ lastOp.op = "delete" =>
          /\ storage.kind = "json" /\ storage.doc.haslist
          /\ Len(now) = Len(before) - 1
          /\ \A i \in 1..Len(now) :
               now[i] = before[IF i <= lastOp.idx THEN i ELSE i + 1]
     /\ lastOp.op = "declined" => storage = lastOp.before
\* The page found a text that is not JSON; two vehicles were saved, the
\* second with a blank year, and the first was then deleted.
C30_Witness ==
  /\ lastOp.found.kind = "garbage"
  /\ lastOp.op = "delete" /\ lastOp.idx = 0
  /\ Len(lastOp.before.doc.vehicles) = 2
  /\ Len(storage.doc.vehicles) = 1
  /\ storage.doc.vehicles[1].year = Null
  /\ download.kind = "json" /\ download.doc = lastOp.before.doc

====
